---------------------------- MODULE Spec2Model ----------------------------
(***************************************************************************)
(* Model of the IRIS module interface:                                     *)
(*   iris_interface/IrisInterfaceStatus.py  (IIStatus, the I2* status      *)
(*       objects, IITaskStatus)                                            *)
(*   iris_interface/IrisModuleInterface.py  (IrisModuleInterface)          *)
(*                                                                         *)
(* The status objects I2Success, I2Error, ... are module-level objects of  *)
(* IrisInterfaceStatus.py; every operation of the interface that "returns  *)
(* a status" calls one of them (IIStatus.__call__, which updates the       *)
(* object in place and returns it).  The model therefore keeps them in the *)
(* variable pool and a returned result is a reference (the object's name)  *)
(* into pool.                                                              *)
(*                                                                         *)
(* Logging: every instance has a logger (self.log) and a message_queue    *)
(* filled by a QueuingHandler on that logger.  The action NewInstance and  *)
(* LogLine model them for any number of instances; the other actions are   *)
(* about one instance and leave the logging state alone.                   *)
(***************************************************************************)
EXTENDS Integers, Sequences, FiniteSets, TLC

VARIABLES
    pool,                   \* IrisInterfaceStatus.I2*: name -> IIStatus object
    _module_name,           \* class attributes of the (sub)class
    _module_type,
    _pipeline_support,
    _pipeline_info,
    _module_configuration,
    _is_ready,              \* instance attributes
    _evidence_storage,
    _mod_web_config,
    _dict_conf,
    pc,                     \* "class": not yet constructed, "object": constructed
    ret,                    \* the last operation and what it returned
    task,                   \* an IITaskStatus (self of merge_task_results)
    task_hist,              \* history of the merges into task
    status,                 \* an IIStatus object constructed by a caller
    status_hist,            \* how status was constructed and last updated
    log_name,               \* per instance: the name suffix of self.log
    message_queue,          \* per instance: self.message_queue
    loggers,                \* logging's loggers: name suffix -> its handlers
    effective_level,        \* the level the host's logging setup gives them
    log_hist                \* per instance: the records its logger handled

modvars  == <<_module_name, _module_type, _pipeline_support, _pipeline_info,
              _module_configuration>>
instvars == <<_is_ready, _evidence_storage, _mod_web_config, _dict_conf>>
taskvars == <<task, task_hist>>
statusvars == <<status, status_hist>>
logvars  == <<log_name, message_queue, loggers, effective_level, log_hist>>
vars     == <<pool, modvars, instvars, pc, ret, taskvars, statusvars, logvars>>

---------------------------------------------------------------------------
(* Bounds of the model *)

\* longest string drawn as a configuration value or default
MaxStrLen == 4
\* most parameter records in a configuration list
MaxParams == 2
\* most merges into one task status
MaxMerges == 3

\* most keywords supplied in one update call of a status
MaxKeywords == 2
\* most instances of the module
MaxInstances == 2
\* most records handled by the logger of one instance
MaxLines == 4

---------------------------------------------------------------------------
(* Python values.  A scalar (a parameter's value or default, a flag of the *)
(* pipeline info) is a record [t, b, i, s]: its type and, by type, its     *)
(* bool, int or str content (a str is the sequence of its characters).     *)

PyNone    == [t |-> "NoneType", b |-> FALSE, i |-> 0, s |-> <<>>]
PyBool(x) == [t |-> "bool", b |-> x, i |-> 0, s |-> <<>>]
PyInt(n)  == [t |-> "int", b |-> FALSE, i |-> n, s |-> <<>>]
PyStr(cs) == [t |-> "str", b |-> FALSE, i |-> 0, s |-> cs]

\* bool(v)
Truthy(v) ==
    CASE v.t = "NoneType" -> FALSE
      [] v.t = "bool"     -> v.b
      [] v.t = "int"      -> v.i # 0
      [] v.t = "str"      -> v.s # <<>>

\* isinstance(v, str)
IsStr(v) == v.t = "str"

Chars  == {"t", "r", "u", "e", "T", "0", "1", "-"}
Digits == {"0", "1"}

\* str.lower(), character by character
LowerChar(c) == IF c = "T" THEN "t" ELSE c
Lower(cs) == [k \in 1..Len(cs) |-> LowerChar(cs[k])]

DigitVal(c) == IF c = "1" THEN 1 ELSE 0

RECURSIVE DigitsVal(_)
DigitsVal(cs) ==
    IF cs = <<>> THEN 0
    ELSE 10 * DigitsVal(SubSeq(cs, 1, Len(cs) - 1)) + DigitVal(cs[Len(cs)])

AllDigits(cs) == cs # <<>> /\ \A k \in 1..Len(cs) : cs[k] \in Digits

\* int(cs) on a str over Chars: an optional sign, then one or more digits;
\* anything else raises ValueError (ok = FALSE).
ParseInt(cs) ==
    IF cs # <<>> /\ cs[1] = "-"
    THEN [ok |-> AllDigits(Tail(cs)), val |-> 0 - DigitsVal(Tail(cs))]
    ELSE [ok |-> AllDigits(cs), val |-> DigitsVal(cs)]

---------------------------------------------------------------------------
(* Payloads.  The data of a status is None, the evidence storage, a list   *)
(* of parameter records, a dict from parameter names to scalars, or a      *)
(* non-empty str (a stored configuration that is no list of records).      *)

EmptyDict == [k \in {} |-> PyNone]

DataNone      == [kind |-> "None", recs |-> <<>>, dict |-> EmptyDict]
DataStorage   == [kind |-> "EvidenceStorage", recs |-> <<>>, dict |-> EmptyDict]
DataList(rs)  == [kind |-> "list", recs |-> rs, dict |-> EmptyDict]
DataDict(d)   == [kind |-> "dict", recs |-> <<>>, dict |-> d]
DataText      == [kind |-> "str", recs |-> <<>>, dict |-> EmptyDict]

\* bool(data)
DataTruthy(d) ==
    CASE d.kind = "None"            -> FALSE
      [] d.kind = "EvidenceStorage" -> TRUE
      [] d.kind = "list"            -> d.recs # <<>>
      [] d.kind = "dict"            -> DOMAIN d.dict # {}
      [] d.kind = "str"             -> TRUE

\* a parameter record; a record without a 'value' key has value None
\* (param.get('value'))
Param(name, value, default, type) ==
    [param_name |-> name, value |-> value, default |-> default, type |-> type]

---------------------------------------------------------------------------
(* IrisInterfaceStatus.py: IIStatus *)

FailureThreshold == 65280       \* 0xFF00
UnknownCode      == 65535       \* 0xFFFF

\* IIStatus.__init__: a zero code is stored as 0xFFFF, an empty message as
\* "Unknown message <code>"
IIStatus(code, message, data, logs) ==
    [code    |-> IF code # 0 THEN code ELSE UnknownCode,
     message |-> IF message # "" THEN message
                 ELSE "Unknown message " \o ToString(code),
     data    |-> data,
     logs    |-> logs]

is_success(self) == self.code < FailureThreshold

\* a slip that leaves the code 0xFF00 neither a success nor a failure
FailureAboveThreshold(self) == self.code > FailureThreshold

is_failure(self) == self.code >= FailureThreshold

get_data(self) == self.data

\* The keyword arguments of a call: given is the set of keywords supplied,
\* the other fields their values (kwargs.get(k) is None for k not given).
NoKw == [given |-> {}, message |-> "", code |-> 0, data |-> DataNone,
         logs |-> DataNone]
KwMessage(m) == [NoKw EXCEPT !.given = {"message"}, !.message = m]
KwData(d)    == [NoKw EXCEPT !.given = {"data"}, !.data = d]

\* IIStatus.__call__(self, *args, **kwargs): args is the tuple of the
\* positional arguments (strings); the result is self after the call.
StatusCall(self, args, kw) ==
    LET m1 == IF "message" \in kw.given /\ kw.message # ""
              THEN kw.message ELSE self.message
        c1 == IF "code" \in kw.given /\ kw.code # 0
              THEN kw.code ELSE self.code
        d1 == IF "data" \in kw.given /\ DataTruthy(kw.data)
              THEN kw.data ELSE self.data
        l1 == IF "logs" \in kw.given /\ DataTruthy(kw.logs)
              THEN kw.logs ELSE self.logs
        m2 == IF Len(args) = 1 THEN args[1] ELSE m1
    IN  [code |-> c1, message |-> m2, data |-> d1, logs |-> l1]

\* The standard interface statuses, as created when the module is imported
StandardStatuses ==
    [I2UnknownError            |-> IIStatus(65535, "Unknown error", DataNone, DataNone),
     I2Error                   |-> IIStatus(65534, "Unknown error", DataNone, DataNone),
     I2InterfaceNotImplemented |-> IIStatus(65280, "Interface function not implemented", DataNone, DataNone),
     I2UnexpectedResult        |-> IIStatus(65281, "Unexpected result", DataNone, DataNone),
     I2FileNotFound            |-> IIStatus(65282, "File not found", DataNone, DataNone),
     I2InterfaceNotReady       |-> IIStatus(65283, "Interface not ready", DataNone, DataNone),
     I2InterfaceNotInitialized |-> IIStatus(65284, "Interface not initialized", DataNone, DataNone),
     I2CriticalError           |-> IIStatus(65285, "Critical error", DataNone, DataNone),
     I2NoError                 |-> IIStatus(1, "No errors", DataNone, DataNone),
     I2Success                 |-> IIStatus(2, "Success", DataNone, DataNone),
     I2ConfigureSuccess        |-> IIStatus(3, "Configured successfully", DataNone, DataNone)]

\* IrisInterfaceStatus.X(*args, **kwargs) for a standard status X: the
\* object named X is updated in place and is what the call returns.
Called(p, name, args, kw) ==
    [pool |-> [p EXCEPT ![name] = StatusCall(p[name], args, kw)], ref |-> name]

---------------------------------------------------------------------------
(* IrisModuleInterface.py: configuration *)

\* a slip that compares with "true" without lower()
CastWithoutLower(value, value_type) ==
    IF value_type = "bool" /\ IsStr(value)
    THEN [ok |-> TRUE, val |-> PyBool(value.s = <<"t", "r", "u", "e">>)]
    ELSE IF value_type = "int" /\ IsStr(value)
         THEN [ok |-> ParseInt(value.s).ok, val |-> PyInt(ParseInt(value.s).val)]
         ELSE [ok |-> TRUE, val |-> value]

\* _cast_configuration_value(value, value_type): [ok, val]; ok = FALSE when
\* int(value) raises
_cast_configuration_value(value, value_type) ==
    IF value_type = "bool" /\ IsStr(value)
    THEN [ok |-> TRUE, val |-> PyBool(Lower(value.s) = <<"t", "r", "u", "e">>)]
    ELSE IF value_type = "int" /\ IsStr(value)
         THEN [ok |-> ParseInt(value.s).ok, val |-> PyInt(ParseInt(value.s).val)]
         ELSE [ok |-> TRUE, val |-> value]

get_init_configuration(modconf) == modconf

\* get_configuration(): the pool after the call and the status returned
get_configuration(p, webconf, modconf) ==
    IF ~DataTruthy(webconf)
    THEN Called(p, "I2InterfaceNotReady",
                <<"Module configuration not retrieved, using default">>,
                KwData(get_init_configuration(modconf)))
    ELSE Called(p, "I2Success", <<>>, KwData(webconf))

\* configuration[key] = val
DictPut(d, key, val) ==
    [k \in DOMAIN d \cup {key} |-> IF k = key THEN val ELSE d[k]]

\* a slip that tests the truth of the value, not "is not None"
ParamChoiceIfTruthy(param) ==
    IF Truthy(param.value) THEN param.value ELSE param.default

\* the value the loop of get_configuration_dict casts for one record
ParamChoice(param) ==
    IF param.value # PyNone THEN param.value ELSE param.default

\* a slip that drops a record whose cast raises and goes on
RECURSIVE ShapeSkippingBadRecords(_, _, _)
ShapeSkippingBadRecords(recs, k, configuration) ==
    IF k > Len(recs) THEN [ok |-> TRUE, dict |-> configuration]
    ELSE LET param == recs[k]
             cast  == _cast_configuration_value(ParamChoice(param), param.type)
         IN  IF ~cast.ok THEN ShapeSkippingBadRecords(recs, k + 1, configuration)
             ELSE ShapeSkippingBadRecords(recs, k + 1,
                            DictPut(configuration, param.param_name, cast.val))

\* the loop of get_configuration_dict over the records from index k on,
\* configuration being the dict built so far: [ok, dict]; ok = FALSE when
\* an exception is raised
RECURSIVE ShapeFrom(_, _, _)
ShapeFrom(recs, k, configuration) ==
    IF k > Len(recs) THEN [ok |-> TRUE, dict |-> configuration]
    ELSE LET param == recs[k]
             cast  == _cast_configuration_value(ParamChoice(param), param.type)
         IN  IF ~cast.ok THEN [ok |-> FALSE, dict |-> EmptyDict]
             ELSE ShapeFrom(recs, k + 1,
                            DictPut(configuration, param.param_name, cast.val))

\* get_configuration_dict(): the pool after the call and the status returned
get_configuration_dict(p, webconf, modconf) ==
    LET sc == get_configuration(p, webconf, modconf)
        standard_configuration == sc.pool[sc.ref]
    IN  IF is_success(standard_configuration)
        THEN LET standard_configuration_data == get_data(standard_configuration)
                 shaped == IF standard_configuration_data.kind = "list"
                           THEN ShapeFrom(standard_configuration_data.recs, 1, EmptyDict)
                           ELSE [ok |-> FALSE, dict |-> EmptyDict]
             IN  IF shaped.ok
                 THEN Called(sc.pool, "I2Success", <<>>, KwData(DataDict(shaped.dict)))
                 ELSE Called(sc.pool, "I2Error", <<"Configuration malformed">>, NoKw)
        ELSE sc

---------------------------------------------------------------------------
(* IrisModuleInterface.py: the module *)

\* IrisModuleTypes
module_pipeline  == "module_pipeline"
module_processor == "module_processor"

\* a slip in the last check: update support is not looked at
ReadyIgnoringUpdate(name, type, support, info) ==
    IF name = "IrisBaseModule" THEN FALSE
    ELSE IF support /\ type = module_processor THEN FALSE
    ELSE TRUE

\* the readiness __init__ computes from the class attributes: the value of
\* _is_ready when __init__ returns
ReadyAfterInit(name, type, support, info) ==
    IF name = "IrisBaseModule" THEN FALSE
    ELSE IF support /\ type = module_processor THEN FALSE
    ELSE IF support /\ Truthy(info.pipeline_update_support)
                    /\ ~Truthy(info.pipeline_import_support) THEN FALSE
    ELSE TRUE

\* what an operation returned: its name, the status object returned (ref,
\* "" when it returns no status), the bool returned (val, for is_ready) and
\* the host's answer (success, log) the operation received, if any
Returned(op, ref) ==
    [op |-> op, ref |-> ref, val |-> FALSE, success |-> FALSE, log |-> ""]

NoReturn == Returned("", "")

\* a slip that returns another of the standard statuses
return_not_ready == "I2InterfaceNotReady"

\* return_not_implemented()
return_not_implemented == "I2InterfaceNotImplemented"

\* __init__(self); config is the data of the host's
\* get_mod_config_by_name(self._module_name)
Construct(config) ==
    /\ pc = "class"
    /\ pc' = "object"
    /\ _evidence_storage' = DataStorage
    /\ _mod_web_config' = config
    /\ LET r == get_configuration_dict(pool, config, _module_configuration)
       IN  /\ pool' = r.pool
           /\ _dict_conf' = get_data(r.pool[r.ref])
    /\ _is_ready' = ReadyAfterInit(_module_name, _module_type,
                                   _pipeline_support, _pipeline_info)
    /\ ret' = Returned("__init__", "")
    /\ UNCHANGED <<modvars, taskvars, statusvars, logvars>>

\* the module_dict_conf property
ModuleDictConf ==
    /\ pc = "object"
    /\ LET r == get_configuration_dict(pool, _mod_web_config, _module_configuration)
       IN  /\ pool' = r.pool
           /\ _dict_conf' = get_data(r.pool[r.ref])
    /\ ret' = Returned("module_dict_conf", "")
    /\ UNCHANGED <<modvars, _is_ready, _evidence_storage, _mod_web_config, pc, taskvars, statusvars, logvars>>

\* auto_configure(self); config as for __init__
AutoConfigure(config) ==
    /\ pc = "object"
    /\ _evidence_storage' = DataStorage
    /\ _mod_web_config' = config
    /\ ret' = Returned("auto_configure", "")
    /\ UNCHANGED <<pool, modvars, _is_ready, _dict_conf, pc, taskvars, statusvars, logvars>>

\* internal_configure(self, celery_decorator, evidence_storage, mod_web_config)
InternalConfigure(evidence_storage, mod_web_config) ==
    /\ pc = "object"
    /\ _evidence_storage' = evidence_storage
    /\ _mod_web_config' = mod_web_config
    /\ ret' = Returned("internal_configure", "I2Success")
    /\ UNCHANGED <<pool, modvars, _is_ready, _dict_conf, pc, taskvars, statusvars, logvars>>

\* get_evidence_storage(): the pool after the call and the status returned
get_evidence_storage(p, storage) ==
    IF ~DataTruthy(storage)
    THEN Called(p, "I2InterfaceNotReady",
                <<"Evidence storage not initialized">>, NoKw)
    ELSE Called(p, "I2Success", <<>>, KwData(storage))

\* get_evidence_storage(self)
GetEvidenceStorage ==
    /\ pc = "object"
    /\ LET r == get_evidence_storage(pool, _evidence_storage)
       IN  /\ pool' = r.pool
           /\ ret' = Returned("get_evidence_storage", r.ref)
    /\ UNCHANGED <<modvars, instvars, pc, taskvars, statusvars, logvars>>

\* get_configuration(self)
GetConfiguration ==
    /\ pc = "object"
    /\ LET r == get_configuration(pool, _mod_web_config, _module_configuration)
       IN  /\ pool' = r.pool
           /\ ret' = Returned("get_configuration", r.ref)
    /\ UNCHANGED <<modvars, instvars, pc, taskvars, statusvars, logvars>>

\* get_configuration_dict(self)
GetConfigurationDict ==
    /\ pc = "object"
    /\ LET r == get_configuration_dict(pool, _mod_web_config, _module_configuration)
       IN  /\ pool' = r.pool
           /\ ret' = Returned("get_configuration_dict", r.ref)
    /\ UNCHANGED <<modvars, instvars, pc, taskvars, statusvars, logvars>>

\* is_ready(self)
IsReady ==
    /\ pc = "object"
    /\ ret' = [Returned("is_ready", "") EXCEPT !.val = _is_ready]
    /\ UNCHANGED <<pool, modvars, instvars, pc, taskvars, statusvars, logvars>>

\* pipeline_files_upload(self, ...)
PipelineFilesUpload ==
    /\ pc = "object"
    /\ ret' = Returned("pipeline_files_upload", return_not_implemented)
    /\ UNCHANGED <<pool, modvars, instvars, pc, taskvars, statusvars, logvars>>

\* pipeline_handler(self, pipeline_type, pipeline_data)
PipelineHandler ==
    /\ pc = "object"
    /\ ret' = Returned("pipeline_handler", return_not_implemented)
    /\ UNCHANGED <<pool, modvars, instvars, pc, taskvars, statusvars, logvars>>

\* pipeline_init(self, app_info)
PipelineInit ==
    /\ pc = "object"
    /\ ret' = Returned("pipeline_init", return_not_implemented)
    /\ UNCHANGED <<pool, modvars, instvars, pc, taskvars, statusvars, logvars>>

\* run(self, pipeline_type, pipeline_data): returns what pipeline_handler
\* returns
Run ==
    /\ pc = "object"
    /\ ret' = Returned("run", return_not_implemented)
    /\ UNCHANGED <<pool, modvars, instvars, pc, taskvars, statusvars, logvars>>

\* hooks_handler(self, hook_name, hook_ui_name, data)
HooksHandler ==
    /\ pc = "object"
    /\ ret' = Returned("hooks_handler", "I2InterfaceNotImplemented")
    /\ UNCHANGED <<pool, modvars, instvars, pc, taskvars, statusvars, logvars>>

\* register_hooks(self, module_id)
RegisterHooks ==
    /\ pc = "object"
    /\ ret' = Returned("register_hooks", "I2InterfaceNotImplemented")
    /\ UNCHANGED <<pool, modvars, instvars, pc, taskvars, statusvars, logvars>>

\* the status register_to_hook returns for the host's answer (success, log)
register_to_hook(p, success, log) ==
    IF success THEN Called(p, "I2Success", <<>>, KwMessage(log))
    ELSE Called(p, "I2Error", <<>>, KwMessage(log))

\* the status deregister_from_hook returns for the host's answer
deregister_from_hook(p, success, log) ==
    Called(p, "I2Success", <<>>, KwMessage(log))

\* register_to_hook(module_id, iris_hook_name, manual_hook_name,
\* run_asynchronously), a static method; (success, log) is what the host's
\* register_hook returns for the forwarded arguments
RegisterToHook(success, log) ==
    /\ LET r == register_to_hook(pool, success, log)
       IN  /\ pool' = r.pool
           /\ ret' = [Returned("register_to_hook", r.ref)
                        EXCEPT !.success = success, !.log = log]
    /\ UNCHANGED <<modvars, instvars, pc, taskvars, statusvars, logvars>>

\* deregister_from_hook(module_id, iris_hook_name), a static method
DeregisterFromHook(success, log) ==
    /\ LET r == deregister_from_hook(pool, success, log)
       IN  /\ pool' = r.pool
           /\ ret' = [Returned("deregister_from_hook", r.ref)
                        EXCEPT !.success = success, !.log = log]
    /\ UNCHANGED <<modvars, instvars, pc, taskvars, statusvars, logvars>>

---------------------------------------------------------------------------
(* IrisInterfaceStatus.py: IITaskStatus *)

\* the logs of a task status: None or a list of lines
LogsNone     == [kind |-> "None", lines |-> <<>>]
LogsList(ls) == [kind |-> "list", lines |-> ls]

\* the data of a task status: None or a dict, of which the model keeps the
\* 'is_update' entry (PyNone: no such key)
TaskDataNone    == [kind |-> "None", is_update |-> PyNone]
TaskDataDict(u) == [kind |-> "dict", is_update |-> u]

\* a slip that gives a successful task status the code of I2Success
TaskStatusCodedBySuccess(success, user, initial, logs, data, case_name, imported_files) ==
    [code           |-> IF success THEN 2 ELSE UnknownCode,
     message        |-> IIStatus(UnknownCode, "Unknown error", DataNone, DataNone).message,
     success        |-> success,
     user           |-> user,
     initial        |-> initial,
     logs           |-> logs,
     data           |-> data,
     case_name      |-> case_name,
     imported_files |-> imported_files]

\* IITaskStatus.__init__: super().__init__() leaves the default code and
\* message
IITaskStatus(success, user, initial, logs, data, case_name, imported_files) ==
    [code           |-> IIStatus(UnknownCode, "Unknown error", DataNone, DataNone).code,
     message        |-> IIStatus(UnknownCode, "Unknown error", DataNone, DataNone).message,
     success        |-> success,
     user           |-> user,
     initial        |-> initial,
     logs           |-> logs,
     data           |-> data,
     case_name      |-> case_name,
     imported_files |-> imported_files]

iit_report_task_failure(user, initial, logs, data, case_name, imported_files) ==
    IITaskStatus(FALSE, user, initial, logs, data, case_name, imported_files)

iit_report_task_success(user, initial, logs, data, case_name, imported_files) ==
    IITaskStatus(TRUE, user, initial, logs, data, case_name, imported_files)

\* a slip that keeps the success of the last merged result only
MergeTakingLastSuccess(self, new_ret, is_update) ==
    LET s1 == [self EXCEPT !.success = new_ret.success]
        s2 == [s1 EXCEPT !.logs = LogsList(self.logs.lines \o new_ret.logs.lines)]
        s3 == [s2 EXCEPT !.data = TaskDataDict(PyBool(is_update))]
    IN  IF self.logs.kind # "list" \/ new_ret.logs.kind # "list"
        THEN [self |-> s1, raised |-> TRUE]
        ELSE IF self.data.kind # "dict"
             THEN [self |-> s2, raised |-> TRUE]
             ELSE [self |-> s3, raised |-> FALSE]

\* merge_task_results(self, new_ret, is_update): self after the call and
\* whether the call raised (a TypeError of "self.logs += new_ret.logs" or of
\* "self.data['is_update'] = is_update"); the assignments made before the
\* exception stay
merge_task_results(self, new_ret, is_update) ==
    LET s1 == [self EXCEPT !.success = new_ret.success /\ self.success]
        s2 == [s1 EXCEPT !.logs = LogsList(self.logs.lines \o new_ret.logs.lines)]
        s3 == [s2 EXCEPT !.data = TaskDataDict(PyBool(is_update))]
    IN  IF self.logs.kind # "list" \/ new_ret.logs.kind # "list"
        THEN [self |-> s1, raised |-> TRUE]
        ELSE IF self.data.kind # "dict"
             THEN [self |-> s2, raised |-> TRUE]
             ELSE [self |-> s3, raised |-> FALSE]

\* the task statuses drawn as inputs
TaskLogs  == {LogsNone, LogsList(<<>>), LogsList(<<"line">>)}
TaskDatas == {TaskDataNone, TaskDataDict(PyNone)}
TaskInputs ==
    {iit_report_task_success("user", "initial", l, d, "case", "files") :
        l \in TaskLogs, d \in TaskDatas}
    \cup
    {iit_report_task_failure("user", "initial", l, d, "case", "files") :
        l \in TaskLogs, d \in TaskDatas}

\* the results merged into a task: of the same user and case or of others
MergedInputs ==
    TaskInputs
    \cup
    {iit_report_task_success("other user", "other initial", LogsList(<<"other line">>),
                             d, "other case", "other files") : d \in TaskDatas}

\* task.merge_task_results(new_ret, is_update); task_hist records the
\* success of the task before any merge, the success of each merged result,
\* whether the last call raised, and the task and arguments of the last call
MergeTaskResults(new_ret, is_update) ==
    /\ Len(task_hist.merged) < MaxMerges
    /\ LET r == merge_task_results(task, new_ret, is_update)
       IN  /\ task' = r.self
           /\ task_hist' = [task_hist EXCEPT
                              !.merged = Append(@, new_ret.success),
                              !.raised = r.raised,
                              !.before = task,
                              !.new_ret = new_ret,
                              !.is_update = is_update]
    /\ UNCHANGED <<pool, modvars, instvars, pc, ret, statusvars, logvars>>

NoTask == iit_report_task_success("user", "initial", LogsNone, TaskDataNone,
                                  "case", "files")
NoTaskHist == [initial |-> TRUE, merged |-> <<>>, raised |-> FALSE,
               before |-> NoTask, new_ret |-> NoTask, is_update |-> FALSE]

---------------------------------------------------------------------------
(* IrisInterfaceStatus.py: an IIStatus object of a caller and its updates *)

\* IIStatus(): every argument omitted
NoStatus == IIStatus(UnknownCode, "Unknown error", DataNone, DataNone)
NoStatusHist == [op |-> "", code |-> UnknownCode, before |-> NoStatus,
                 args |-> <<>>, kw |-> NoKw, returned |-> ""]

\* the keyword arguments of a call: given is the set of the keywords
\* supplied, a keyword not supplied has the value it has in NoKw
Kw(given, message, code, data, logs) ==
    [given   |-> given,
     message |-> IF "message" \in given THEN message ELSE NoKw.message,
     code    |-> IF "code" \in given THEN code ELSE NoKw.code,
     data    |-> IF "data" \in given THEN data ELSE NoKw.data,
     logs    |-> IF "logs" \in given THEN logs ELSE NoKw.logs]

\* the arguments drawn for the construction of a status and for its
\* update, at most MaxKeywords keywords in one call
StatusCodes    == {0, 2, UnknownCode}
StatusMessages == {"", "Success"}
StatusDatas    == {DataNone, DataList(<<Param("param_1", PyNone, PyNone, "string")>>)}
KwCodes    == {0, FailureThreshold - 1, FailureThreshold}
KwMessages == {"", "updated"}
KwDatas    == {DataNone, DataList(<<>>), DataDict(EmptyDict),
               DataDict(DictPut(EmptyDict, "param_1", PyInt(1)))}
KwLogs     == {DataNone, DataList(<<>>), DataList(<<"line">>)}
KwInputs ==
    {Kw(given, message, code, data, logs) :
        given \in {g \in SUBSET {"message", "code", "data", "logs"} :
                        Cardinality(g) <= MaxKeywords},
        message \in KwMessages, code \in KwCodes, data \in KwDatas,
        logs \in KwLogs}
\* a positional message comes alone or with data, as in the calls of
\* IrisModuleInterface
KwWithPositional == {kw \in KwInputs : kw.given \subseteq {"data"}}

\* status(*args, **kw): the object is updated in place and the call
\* returns it; status_hist records the object before the call, the
\* arguments and what was returned
StatusUpdate(args, kw) ==
    /\ status' = StatusCall(status, args, kw)
    /\ status_hist' = [status_hist EXCEPT !.op = "__call__", !.before = status,
                                          !.args = args, !.kw = kw,
                                          !.returned = "self"]
    /\ UNCHANGED <<pool, modvars, instvars, pc, ret, taskvars, logvars>>

---------------------------------------------------------------------------
(* Logging: IrisModuleInterface.__init__ (self.log, self.message_queue),   *)
(* set_log_handler, QueuingHandler                                         *)

\* a log record: its level, its message and the number of newlines the
\* message ends with
LogRecord(level, text, newlines) ==
    [level |-> level, text |-> text, newlines |-> newlines]

\* the levels of logging, lowest first
LevelOrder == <<"DEBUG", "INFO", "WARNING", "ERROR", "CRITICAL">>
LevelNo(level) == CHOOSE k \in 1..Len(LevelOrder) : LevelOrder[k] = level

\* Logger.isEnabledFor: self.log has no level of its own, so the level of
\* its ancestors decides
isEnabledFor(level) == LevelNo(level) >= LevelNo(effective_level)

\* self.format(record).rstrip('\n'): the message without its last newlines
Formatted(record) == [text |-> record.text, newlines |-> 0]

\* Logger.callHandlers: the handlers of the logger, from the k-th on, each
\* run QueuingHandler.emit, which appends to the message_queue the handler
\* was made with (a handler is named by the instance that made it).  The
\* update_state of the task that follows the append is the host's.
RECURSIVE callHandlers(_, _, _, _)
callHandlers(mq, handlers, k, record) ==
    IF k > Len(handlers) THEN mq
    ELSE callHandlers([mq EXCEPT ![handlers[k]] = Append(@, Formatted(record))],
                      handlers, k + 1, record)

\* the records of a sequence, from the k-th on, handled one after the other
RECURSIVE HandleAll(_, _, _, _)
HandleAll(mq, handlers, k, records) ==
    IF k > Len(records) THEN mq
    ELSE HandleAll(callHandlers(mq, handlers, 1, records[k]), handlers,
                   k + 1, records)

\* the records __init__ logs: those of get_configuration and of
\* get_configuration_dict, then the outcome of the checks
ConfigurationLines(p, webconf, modconf) ==
    LET sc == get_configuration(p, webconf, modconf)
        rc == get_configuration_dict(p, webconf, modconf)
    IN  (IF ~DataTruthy(webconf)
         THEN <<LogRecord("WARNING", "Module configuration not retrieved, using default", 0)>>
         ELSE <<>>)
        \o
        (IF is_success(sc.pool[sc.ref])
         THEN <<LogRecord("INFO", "Retrieved server configuration", 0)>>
              \o (IF rc.ref = "I2Error"
                  THEN <<LogRecord("INFO", "Configuration malformed", 0)>>
                  ELSE <<>>)
         ELSE <<LogRecord("INFO", "Returning faulty configuration", 0)>>)

LastInitLine(name, type, support, info) ==
    IF name = "IrisBaseModule"
    THEN LogRecord("CRITICAL", "The module cannot be named as IrisBaseModule", 0)
    ELSE IF support /\ type = module_processor
    THEN LogRecord("CRITICAL", "Modules of type processor can't have pipelines", 0)
    ELSE IF support /\ Truthy(info.pipeline_update_support)
                    /\ ~Truthy(info.pipeline_import_support)
    THEN LogRecord("CRITICAL", "Logic error in the module pipeline", 0)
    ELSE LogRecord("INFO", "Module has initiated", 0)

\* __init__ of one more instance of the class.  rand is the suffix drawn
\* (eight random letters) and config what the host has stored.  getLogger
\* gives the logger of that name, the one that exists if one does, and
\* set_log_handler adds to it a handler on the new message_queue.  The
\* attributes are those of the instance constructed last.  log_hist keeps
\* the records the instance's logger handled (those its level lets pass).
NewInstance(rand, config) ==
    /\ Len(log_name) < MaxInstances
    /\ LET self     == Len(log_name) + 1
           handlers == Append(loggers[rand], self)
           records  == SelectSeq(
                          Append(ConfigurationLines(pool, config, _module_configuration),
                                 LastInitLine(_module_name, _module_type,
                                              _pipeline_support, _pipeline_info)),
                          LAMBDA r : isEnabledFor(r.level))
       IN  /\ log_name' = Append(log_name, rand)
           /\ loggers' = [loggers EXCEPT ![rand] = handlers]
           /\ message_queue' = HandleAll(Append(message_queue, <<>>), handlers,
                                         1, records)
           /\ log_hist' = Append(log_hist, records)
    /\ pc' = "object"
    /\ _evidence_storage' = DataStorage
    /\ _mod_web_config' = config
    /\ LET r == get_configuration_dict(pool, config, _module_configuration)
       IN  /\ pool' = r.pool
           /\ _dict_conf' = get_data(r.pool[r.ref])
    /\ _is_ready' = ReadyAfterInit(_module_name, _module_type,
                                   _pipeline_support, _pipeline_info)
    /\ ret' = Returned("__init__", "")
    /\ UNCHANGED <<modvars, taskvars, statusvars, effective_level>>

\* self.log.<level>(text) of the instance self, when the level lets it pass
LogLine(self, record) ==
    /\ self \in 1..Len(log_name)
    /\ Len(log_hist[self]) < MaxLines
    /\ isEnabledFor(record.level)
    /\ message_queue' = callHandlers(message_queue, loggers[log_name[self]],
                                     1, record)
    /\ log_hist' = [log_hist EXCEPT ![self] = Append(@, record)]
    /\ UNCHANGED <<pool, modvars, instvars, pc, ret, taskvars, statusvars,
                   log_name, loggers, effective_level>>

\* two of the 26^8 suffixes, and the levels a host may have set
Suffixes   == {"aaaaaaaa", "aaaaaaab"}
HostLevels == {"INFO", "WARNING"}
LogRecords == {LogRecord("INFO", "step done", 0),
               LogRecord("ERROR", "step failed", 1)}

\* no instance constructed yet
NoInstances ==
    /\ log_name = <<>>
    /\ message_queue = <<>>
    /\ loggers = [rand \in Suffixes |-> <<>>]
    /\ log_hist = <<>>

---------------------------------------------------------------------------
(* Inputs *)

ValueTypes == {"bool", "int", "string"}

ParamNames == [k \in 1..(MaxParams + 1) |-> "param_" \o ToString(k)]

\* explicit values and defaults of the records of a configuration list
ParamValues   == {PyNone, PyBool(FALSE), PyInt(0), PyStr(<<>>),
                  PyStr(<<"1">>), PyStr(<<"T">>)}
ParamDefaults == {PyNone, PyStr(<<"t", "r", "u", "e">>)}

\* the configuration list of n records, the k-th named ParamNames[k] with
\* value, default and type f[k]
ParamList(n, f) ==
    DataList([k \in 1..n |-> Param(ParamNames[k], f[k][1], f[k][2], f[k][3])])

\* one record without an explicit value, its default the str cs
DefaultOnlyList(cs, type) ==
    DataList(<<Param(ParamNames[1], PyNone, PyStr(cs), type)>>)

\* the configurations a class declares (records without 'value')
DeclaredConfigurations ==
    {DataList(<<>>),
     DataList(<<Param("param_1", PyNone, PyStr(<<"t", "r", "u", "e">>), "bool"),
                Param("param_2", PyNone, PyNone, "string")>>)}

\* a few host configurations: none, empty, well-formed, malformed
WebConfigs ==
    {DataNone, DataList(<<>>),
     DataList(<<Param("param_1", PyStr(<<"T">>), PyNone, "bool"),
                Param("param_2", PyNone, PyStr(<<"1", "0">>), "int")>>),
     DataList(<<Param("param_1", PyStr(<<"-">>), PyNone, "int")>>)}

HostLogs == {"", "hook registered"}

ModuleNames   == {"IrisBaseModule", "IrisDummyModule"}
ModuleTypes   == {"pipeline", "processor", module_pipeline, module_processor}
SupportFlags  == {PyNone, PyBool(FALSE), PyBool(TRUE)}
PipelineInfos ==
    {[pipeline_update_support |-> u, pipeline_import_support |-> i] :
        u \in SupportFlags, i \in SupportFlags}

---------------------------------------------------------------------------
(* Specifications *)

\* a class just defined, no instance yet
ClassState(names, types, supports, infos, confs) ==
    /\ pool = StandardStatuses
    /\ _module_name \in names
    /\ _module_type \in types
    /\ _pipeline_support \in supports
    /\ _pipeline_info \in infos
    /\ _module_configuration \in confs
    /\ _is_ready = FALSE
    /\ _evidence_storage = DataNone
    /\ _mod_web_config = DataNone
    /\ _dict_conf = DataNone
    /\ pc = "class"
    /\ ret = NoReturn

AllTrue == [pipeline_update_support |-> PyBool(TRUE),
            pipeline_import_support |-> PyBool(TRUE)]

\* The module interface: one class, its instance and the operations on it
Init ==
    /\ ClassState({"IrisDummyModule"}, {module_pipeline}, {TRUE}, {AllTrue},
                  DeclaredConfigurations)
    /\ task = NoTask
    /\ task_hist = NoTaskHist
    /\ status = NoStatus
    /\ status_hist = NoStatusHist
    /\ NoInstances
    /\ effective_level = "WARNING"

Next ==
    \/ pc = "class" /\ \E config \in WebConfigs : Construct(config)
    \/ \E config \in WebConfigs : AutoConfigure(config)
    \/ \E e \in {DataNone, DataStorage}, config \in WebConfigs :
          InternalConfigure(e, config)
    \/ ModuleDictConf
    \/ GetEvidenceStorage
    \/ GetConfiguration
    \/ GetConfigurationDict
    \/ IsReady
    \/ PipelineFilesUpload
    \/ PipelineHandler
    \/ PipelineInit
    \/ Run
    \/ HooksHandler
    \/ RegisterHooks
    \/ \E success \in BOOLEAN, log \in HostLogs : RegisterToHook(success, log)
    \/ \E success \in BOOLEAN, log \in HostLogs : DeregisterFromHook(success, log)

Spec == Init /\ [][Next]_vars

\* Construction of every kind of class
InitReady ==
    /\ ClassState(ModuleNames, ModuleTypes, BOOLEAN, PipelineInfos,
                  {DataList(<<>>)})
    /\ task = NoTask
    /\ task_hist = NoTaskHist
    /\ status = NoStatus
    /\ status_hist = NoStatusHist
    /\ NoInstances
    /\ effective_level = "WARNING"

NextReady ==
    \/ pc = "class" /\ \E config \in {DataNone, DataList(<<>>)} : Construct(config)
    \/ IsReady

SpecReady == InitReady /\ [][NextReady]_vars

\* Shaping of the configurations the host may store: none, a str, a list
\* of at most MaxParams records, one record whose default is any str of at
\* most MaxStrLen characters
InitConf ==
    /\ ClassState({"IrisDummyModule"}, {module_pipeline}, {TRUE}, {AllTrue},
                  {DataList(<<>>)})
    /\ task = NoTask
    /\ task_hist = NoTaskHist
    /\ status = NoStatus
    /\ status_hist = NoStatusHist
    /\ NoInstances
    /\ effective_level = "WARNING"

NextConf ==
    \/ pc = "class" /\ \E config \in {DataNone, DataText} : Construct(config)
    \/ pc = "class" /\ \E n \in 0..MaxParams :
          \E f \in [1..n -> ParamValues \X ParamDefaults \X ValueTypes] :
              Construct(ParamList(n, f))
    \/ pc = "class" /\ \E n \in 0..MaxStrLen :
          \E cs \in [1..n -> Chars], type \in ValueTypes :
              Construct(DefaultOnlyList(cs, type))
    \/ GetConfigurationDict
    \/ ModuleDictConf

SpecConf == InitConf /\ [][NextConf]_vars

\* Merging of task statuses
InitTask ==
    /\ ClassState({"IrisDummyModule"}, {module_pipeline}, {TRUE}, {AllTrue},
                  {DataList(<<>>)})
    /\ task \in TaskInputs
    /\ task_hist = [NoTaskHist EXCEPT !.initial = task.success, !.before = task]
    /\ status = NoStatus
    /\ status_hist = NoStatusHist
    /\ NoInstances
    /\ effective_level = "WARNING"

NextTask ==
    \E new_ret \in MergedInputs, is_update \in BOOLEAN :
        MergeTaskResults(new_ret, is_update)

SpecTask == InitTask /\ [][NextTask]_vars

\* A status constructed by a caller, then updated by any calls
InitStatus ==
    /\ ClassState({"IrisDummyModule"}, {module_pipeline}, {TRUE}, {AllTrue},
                  {DataList(<<>>)})
    /\ task = NoTask
    /\ task_hist = NoTaskHist
    /\ \E code \in StatusCodes, message \in StatusMessages, data \in StatusDatas :
          /\ status = IIStatus(code, message, data, DataNone)
          /\ status_hist = [NoStatusHist EXCEPT !.op = "__init__", !.code = code,
                                                !.before = status]
    /\ NoInstances
    /\ effective_level = "WARNING"

NextStatus ==
    \/ \E kw \in KwInputs : StatusUpdate(<<>>, kw)
    \/ \E kw \in KwWithPositional : StatusUpdate(<<"positional">>, kw)

SpecStatus == InitStatus /\ [][NextStatus]_vars

\* Instances of one class and the lines they log
InitLog ==
    /\ ClassState({"IrisDummyModule"}, {module_pipeline}, {TRUE}, {AllTrue},
                  {DataList(<<>>)})
    /\ task = NoTask
    /\ task_hist = NoTaskHist
    /\ status = NoStatus
    /\ status_hist = NoStatusHist
    /\ NoInstances
    /\ effective_level \in HostLevels

NextLog ==
    \/ \E rand \in Suffixes, config \in WebConfigs : NewInstance(rand, config)
    \/ \E self \in 1..MaxInstances, record \in LogRecords : LogLine(self, record)

SpecLog == InitLog /\ [][NextLog]_vars

---------------------------------------------------------------------------
(* Properties of the module interface (Spec) *)

\* the status the last operation would have returned had it been the first
\* operation after the import of IrisInterfaceStatus (nothing left over in
\* the standard statuses)
FirstUseResult ==
    LET r == CASE ret.op = "get_evidence_storage" ->
                    get_evidence_storage(StandardStatuses, _evidence_storage)
               [] ret.op = "get_configuration" ->
                    get_configuration(StandardStatuses, _mod_web_config,
                                      _module_configuration)
               [] ret.op = "get_configuration_dict" ->
                    get_configuration_dict(StandardStatuses, _mod_web_config,
                                           _module_configuration)
               [] ret.op = "register_to_hook" ->
                    register_to_hook(StandardStatuses, ret.success, ret.log)
               [] ret.op = "deregister_from_hook" ->
                    deregister_from_hook(StandardStatuses, ret.success, ret.log)
               [] OTHER -> [pool |-> StandardStatuses, ref |-> ret.ref]
    IN  r.pool[r.ref]

\* C1: a result is constructed fresh per operation: no step changes the
\* code, message, data or logs of the result the previous operation
\* returned, and the result an operation returns carries nothing left over
\* from earlier operations (it is the result that operation returns on
\* first use).
C1_ResultsAreFresh ==
    [][/\ ret.ref # "" => pool'[ret.ref] = pool[ret.ref]
       /\ ret'.ref # "" => pool'[ret'.ref] = FirstUseResult']_vars

ExtensionPoints ==
    {"pipeline_files_upload", "pipeline_handler", "pipeline_init",
     "hooks_handler", "run"}

\* C2: whatever operations came before, an unoverridden extension point
\* returns the "not implemented" status: code 0xFF00, the message it was
\* created with, no data, no logs, and is_failure() true.
C2_NotImplemented ==
    ret.op \in ExtensionPoints =>
        /\ ret.ref = "I2InterfaceNotImplemented"
        /\ pool[ret.ref].code = 65280
        /\ pool[ret.ref] = StandardStatuses["I2InterfaceNotImplemented"]
        /\ is_failure(pool[ret.ref])
        /\ ~is_success(pool[ret.ref])

\* C2, its case: run() returns after hook registrations and configuration
\* calls have updated I2Success, I2Error and I2InterfaceNotReady
C2_Witness ==
    /\ ret.op = "run"
    /\ pool["I2Success"].message = "hook registered"
    /\ pool["I2Error"].message = "Configuration malformed"
    /\ pool["I2InterfaceNotReady"].message = "Evidence storage not initialized"

\* C3: register_to_hook and deregister_from_hook return a success when the
\* host answered success = true and a failure when it answered success =
\* false.
C3_HookResultFollowsHost ==
    ret.op \in {"register_to_hook", "deregister_from_hook"} =>
        /\ ret.success => is_success(pool[ret.ref])
        /\ ~ret.success => is_failure(pool[ret.ref])

\* the mapping from every declared param_name to its cast default
DeclaredDefaults(modconf) ==
    [n \in {modconf.recs[k].param_name : k \in 1..Len(modconf.recs)} |->
        LET k == CHOOSE j \in 1..Len(modconf.recs) : modconf.recs[j].param_name = n
        IN  _cast_configuration_value(modconf.recs[k].default,
                                      modconf.recs[k].type).val]

\* C4: with no (None or empty) host configuration, get_configuration_dict and
\* module_dict_conf yield the mapping from every declared param_name to its
\* cast default.
C4_FallsBackToDeclaredDefaults ==
    ~DataTruthy(_mod_web_config) =>
        /\ ret.op = "get_configuration_dict" =>
              get_data(pool[ret.ref]) = DataDict(DeclaredDefaults(_module_configuration))
        /\ ret.op = "module_dict_conf" =>
              _dict_conf = DataDict(DeclaredDefaults(_module_configuration))

---------------------------------------------------------------------------
(* Properties of construction (SpecReady) *)

UpdateWithoutImport ==
    /\ Truthy(_pipeline_info.pipeline_update_support)
    /\ ~Truthy(_pipeline_info.pipeline_import_support)

\* C5: a module declared with type "processor" and pipeline support enabled
\* is not ready: is_ready() returns false after construction.
C5_ProcessorWithPipelineNotReady ==
    (ret.op = "is_ready" /\ _module_type = "processor" /\ _pipeline_support)
        => ~ret.val

\* C6 as stated: a module whose pipeline info declares update support
\* without import support is not ready, whatever the module type and the
\* pipeline-support flag.
C6_AsStated ==
    (ret.op = "is_ready" /\ UpdateWithoutImport) => ~ret.val

\* C6, amended: a module with pipeline support enabled whose pipeline info
\* declares update support without import support is not ready, whatever
\* the module name and type.
C6_UpdateWithoutImportNotReady ==
    (ret.op = "is_ready" /\ _pipeline_support /\ UpdateWithoutImport)
        => ~ret.val

\* C6, its case: only the update/import check makes this module non-ready
C6_Witness ==
    /\ ret.op = "is_ready"
    /\ ~ret.val
    /\ _module_name # "IrisBaseModule"
    /\ _module_type = module_pipeline
    /\ _pipeline_support
    /\ _pipeline_info.pipeline_update_support = PyBool(TRUE)
    /\ _pipeline_info.pipeline_import_support = PyBool(FALSE)

\* C7: construction always completes and is_ready() is true exactly when
\* none of the three violations holds: the placeholder name, pipeline
\* support with a processor type ("processor" or
\* IrisModuleTypes.module_processor), pipeline support with update support
\* and no import support.
C7_ReadyIffNoViolation ==
    /\ ret.op = "__init__" => pc = "object"
    /\ ret.op = "is_ready" =>
          (ret.val <=>
              ~ \/ _module_name = "IrisBaseModule"
                \/ _pipeline_support /\ _module_type \in {"processor", module_processor}
                \/ _pipeline_support /\ UpdateWithoutImport)

---------------------------------------------------------------------------
(* Properties of task merging (SpecTask) *)

\* C8: merging keeps failure.  After any sequence of merges the task has
\* failed (success false) exactly when it had failed before the merges or
\* one of the merged results had failed, also when a merge raised; and it
\* carries the failing code 0xFFFF.
C8_MergeKeepsFailure ==
    /\ ~task.success <=>
          \/ ~task_hist.initial
          \/ \E k \in 1..Len(task_hist.merged) : ~task_hist.merged[k]
    /\ ~task.success => (task.code = 65535 /\ is_failure(task))

\* C8, its case: a failure merged into a success, then a success merged in
C8_Witness ==
    /\ task_hist.initial
    /\ task_hist.merged = <<FALSE, TRUE>>
    /\ ~task_hist.raised
    /\ ~task.success

---------------------------------------------------------------------------
(* Properties of the shaping of the configuration (SpecConf) *)

\* the last operation returned a normalized dict
ReturnedDict ==
    /\ ret.op = "get_configuration_dict"
    /\ is_success(pool[ret.ref])
    /\ get_data(pool[ret.ref]).kind = "dict"

\* C9: in the dict get_configuration_dict returns, a record with an explicit
\* value (False, 0 and "" included) is mapped to the cast explicit value,
\* and a record is mapped to its cast default only when it has no explicit
\* value.
C9_ExplicitValueWins ==
    ReturnedDict =>
        \A k \in 1..Len(_mod_web_config.recs) :
            LET param == _mod_web_config.recs[k]
                out   == get_data(pool[ret.ref]).dict[param.param_name]
            IN  /\ param.value # PyNone =>
                      out = _cast_configuration_value(param.value, param.type).val
                /\ param.value = PyNone =>
                      out = _cast_configuration_value(param.default, param.type).val

\* C9, its case: explicit False, 0 and "" next to the default "true"
C9_Witness ==
    /\ ReturnedDict
    /\ Len(_mod_web_config.recs) = 2
    /\ _mod_web_config.recs[1] =
          Param("param_1", PyBool(FALSE), PyStr(<<"t", "r", "u", "e">>), "bool")
    /\ _mod_web_config.recs[2] =
          Param("param_2", PyStr(<<>>), PyStr(<<"t", "r", "u", "e">>), "string")
    /\ get_data(pool[ret.ref]).dict["param_1"] = PyBool(FALSE)
    /\ get_data(pool[ret.ref]).dict["param_2"] = PyStr(<<>>)

\* C10: in the dict get_configuration_dict returns, a bool parameter with
\* no explicit value and default "true" is mapped to True; a str of type bool
\* is mapped to True when it is "true" whatever the case and to False
\* otherwise, a str of type int is mapped to its integer value, every other
\* value is unchanged.
C10_ThreeWayCast ==
    ReturnedDict =>
        \A k \in 1..Len(_mod_web_config.recs) :
            LET param == _mod_web_config.recs[k]
                v     == IF param.value # PyNone THEN param.value ELSE param.default
                out   == get_data(pool[ret.ref]).dict[param.param_name]
            IN  /\ (param.type = "bool" /\ param.value = PyNone
                      /\ param.default = PyStr(<<"t", "r", "u", "e">>))
                      => out = PyBool(TRUE)
                /\ (param.type = "bool" /\ IsStr(v)) =>
                      out = PyBool(Lower(v.s) = <<"t", "r", "u", "e">>)
                /\ (IsStr(v) /\ out = PyBool(TRUE)) => param.type = "bool"
                /\ (param.type = "int" /\ IsStr(v)) =>
                      (ParseInt(v.s).ok /\ out = PyInt(ParseInt(v.s).val))
                /\ (param.type \notin {"bool", "int"} \/ ~IsStr(v)) => out = v

\* C10, its case: a bool parameter without value whose default is "true"
C10_Witness ==
    /\ ReturnedDict
    /\ _mod_web_config.recs =
          <<Param("param_1", PyNone, PyStr(<<"t", "r", "u", "e">>), "bool")>>
    /\ get_data(pool[ret.ref]).dict["param_1"] = PyBool(TRUE)


\* the stored configuration is one whose shaping fails: it is no list of
\* records, or a record of type int has for value (or, without value, for
\* default) a str that is no integer
MalformedConf(conf) ==
    /\ DataTruthy(conf)
    /\ \/ conf.kind # "list"
       \/ \E k \in 1..Len(conf.recs) :
             LET param == conf.recs[k]
                 v     == IF param.value # PyNone THEN param.value ELSE param.default
             IN  param.type = "int" /\ IsStr(v) /\ ~ParseInt(v.s).ok

\* C11: when the shaping of the configuration fails, get_configuration_dict
\* returns (no exception leaves it) the failure I2Error with the message
\* "Configuration malformed" and without data: nothing of the mapping built
\* before the failure; module_dict_conf is then None.
C11_MalformedIsReported ==
    MalformedConf(_mod_web_config) =>
        /\ ret.op = "get_configuration_dict" =>
              /\ ret.ref = "I2Error"
              /\ is_failure(pool[ret.ref])
              /\ ~is_success(pool[ret.ref])
              /\ pool[ret.ref].message = "Configuration malformed"
              /\ get_data(pool[ret.ref]) = DataNone
        /\ ret.op \in {"__init__", "module_dict_conf"} => _dict_conf = DataNone

\* C11, its case: the first record is cast and stored, the second raises
C11_Witness ==
    /\ ret.op = "get_configuration_dict"
    /\ ret.ref = "I2Error"
    /\ Len(_mod_web_config.recs) = 2
    /\ _mod_web_config.recs[1] = Param("param_1", PyStr(<<"1">>), PyNone, "int")
    /\ _mod_web_config.recs[2] = Param("param_2", PyStr(<<"T">>), PyNone, "int")


StatusFields == {"message", "code", "data", "logs"}

\* C12, as stated: after an update call every field whose keyword was
\* supplied equals the supplied value, whatever it is, every other field
\* is as before the call, and the call returns the object itself.
C12_SuppliedOverwritesWhateverItIs ==
    status_hist.op = "__call__" =>
        /\ \A f \in StatusFields :
              IF f \in status_hist.kw.given
              THEN status[f] = status_hist.kw[f]
              ELSE status[f] = status_hist.before[f]
        /\ status_hist.returned = "self"

\* C13: for a status constructed with any integer code and updated by any
\* calls, is_success is the negation of is_failure and holds exactly when
\* the stored code is below 0xFF00; a status constructed with the code 0
\* (or without code) stores 0xFFFF.
C13_SuccessIsNotFailure ==
    /\ is_success(status) <=> ~is_failure(status)
    /\ is_success(status) <=> status.code < 65280
    /\ is_failure(status) <=> status.code >= 65280
    /\ status_hist.op = "__init__" /\ status_hist.code \in {0, UnknownCode}
          => status.code = 65535 /\ is_failure(status)

\* C13, its case: an update gives a successful status the code 0xFF00
C13_Witness ==
    /\ status_hist.op = "__call__"
    /\ is_success(status_hist.before)
    /\ "code" \in status_hist.kw.given
    /\ status.code = 65280
    /\ is_failure(status)


\* C14, as stated: whatever the number of instances and the order of their
\* log calls, the message_queue of every instance holds the lines handled
\* by that instance's logger, each once and in the order they were logged,
\* and no line of another instance.
C14_OneBufferPerInstance ==
    \A self \in 1..Len(log_name) :
        message_queue[self] =
            [k \in 1..Len(log_hist[self]) |-> Formatted(log_hist[self][k])]


\* C15: a task status has the code 0xFFFF, so is_failure is true and
\* is_success false whatever its success field, at construction and after
\* any merges; a merge leaves user, initial, case_name, imported_files,
\* code and message as they were, and when it returns, logs is the logs
\* before followed by those of the merged result and data['is_update'] is
\* the is_update given.
C15_TaskCodeAndFrame ==
    /\ task.code = 65535
    /\ is_failure(task) /\ ~is_success(task)
    /\ Len(task_hist.merged) > 0 =>
          /\ \A f \in {"user", "initial", "case_name", "imported_files",
                       "code", "message"} : task[f] = task_hist.before[f]
          /\ ~task_hist.raised =>
                /\ task.logs = LogsList(task_hist.before.logs.lines
                                        \o task_hist.new_ret.logs.lines)
                /\ task.data = TaskDataDict(PyBool(task_hist.is_update))

\* C15, its case: a successful task after the merge of a successful result
\* of another user
C15_Witness ==
    /\ Len(task_hist.merged) > 0
    /\ ~task_hist.raised
    /\ task.success
    /\ task_hist.new_ret.user = "other user"
    /\ task.user = "user"
    /\ task.logs = LogsList(<<"line", "other line">>)
    /\ task_hist.is_update

===========================================================================
